---- MODULE Spec2Model ----
(***************************************************************************)
(* The rename controller of the editor (RenameController, RenameAction and *)
(* the accept/cancel commands of rename.ts) as a state machine.            *)
(*                                                                         *)
(* Every promise continuation of run() is one atomic step: the editor runs *)
(* them on one thread and a continuation runs to its end once started.     *)
(* The collaborators the file only calls (the input field, the rename      *)
(* service, the bulk edit, the editor's word lookup) are modelled by their *)
(* contract: what they return is drawn from small sets.                    *)
(***************************************************************************)
EXTENDS Integers, Sequences, FiniteSets, TLC

VARIABLES
    editor,             \* this.editor: [model, selection]
    writable,           \* EditorContextKeys.Writable
    hasRenameProvider,  \* ModeContextKeys.hasRenameProvider
    renameInputVisible, \* this._renameInputVisible (context key)
    session,            \* the input field: the invocation whose outcome is pending, 0 when hidden
    focus,              \* who has the input focus: "editor" or "input"
    inv                 \* the invocations of run() the host still awaits, by slot

vars == <<editor, writable, hasRenameProvider, renameInputVisible, session, focus, inv>>

\* ------------------------------------------------------------------ bounds

MaxRuns == 2
MaxLine == 2
MaxCol == 9

\* ------------------------------------------------------------------ values

Positions == [lineNumber : 1..MaxLine, column : 1..MaxCol]

Pos(l, c) == [lineNumber |-> l, column |-> c]

PosLE(a, b) ==
    \/ a.lineNumber < b.lineNumber
    \/ a.lineNumber = b.lineNumber /\ a.column <= b.column

\* A selection runs from its anchor to its active end, the cursor.
Sel(a, b) == [anchor |-> a, active |-> b]

Collapsed(p) == Sel(p, p)

AllSelections == [anchor : Positions, active : Positions]

getStartPosition(s) == IF PosLE(s.anchor, s.active) THEN s.anchor ELSE s.active

getEndPosition(s) == IF PosLE(s.anchor, s.active) THEN s.active ELSE s.anchor

startLineNumber(s) == getStartPosition(s).lineNumber

startColumn(s) == getStartPosition(s).column

endLineNumber(s) == getEndPosition(s).lineNumber

endColumn(s) == getEndPosition(s).column

isEmpty(s) == s.anchor = s.active

\* The documents an editor can show, and the words of each.
Docs == {"d1", "d2"}

Words(doc) ==
    IF doc = "d1"
    THEN { [lineNumber |-> 1, word |-> "fooBar", startColumn |-> 1, endColumn |-> 7],
           [lineNumber |-> 2, word |-> "foo", startColumn |-> 5, endColumn |-> 8] }
    ELSE { [lineNumber |-> 1, word |-> "ab", startColumn |-> 3, endColumn |-> 5] }

\* model.getWordAtPosition(position): the word at the position, {} when there is none.
getWordAtPosition(model, position) ==
    { [word |-> w.word, startColumn |-> w.startColumn, endColumn |-> w.endColumn] :
        w \in { x \in Words(model) :
                  /\ x.lineNumber = position.lineNumber
                  /\ x.startColumn <= position.column
                  /\ position.column <= x.endColumn } }

\* editor.getPosition(): the cursor, the active end of the selection.
getPosition(ed) == ed.selection.active

\* What the user may have typed in the input field.
Names == {"bar"}

\* What the rename service may answer.
EditSets == {"e1"}

Reasons == {"", "no other references found"}

Results ==
    { [edits |-> {e}, rejectReason |-> {}] : e \in EditSets }
        \cup { [edits |-> {}, rejectReason |-> {r}] : r \in Reasons }

\* Error payloads: a plain string, or anything else.
StringError(text) == [kind |-> "string", text |-> text]

Errors == { StringError("provider failed"), [kind |-> "object", text |-> "Error"] }

\* Failures whose payload the controller never looks into.
Failures == { [kind |-> "object", text |-> "conflict"] }

Canceled == [kind |-> "canceled", text |-> "Canceled"]

\* The selections a cursor move or a selection change may leave behind.
CursorMoves == { Sel(Pos(2, 6), Pos(2, 9)) }

\* What finish() may yield as the resulting selection.
FinishSelections == { {}, {Collapsed(Pos(1, 1))} }

Max(a, b) == IF a >= b THEN a ELSE b

Min(a, b) == IF a <= b THEN a ELSE b

RenameFailed == "Sorry, rename failed to execute."

\* ------------------------------------------------------------------ invocations

NoInvocation ==
    [ pc |-> "idle",        \* idle, input, service, commit, done
      atRun |-> {},         \* the model and the selection run() read (lines 63-64)
      inputError |-> {},    \* the error the input session ended with
      shown |-> {},         \* the arguments of getInput
      newName |-> {},       \* the accepted name
      call |-> {},          \* the arguments of rename()
      reply |-> {},         \* what rename() answered: a result or an error
      addError |-> {},      \* the error add() threw
      edit |-> [created |-> 0, added |-> <<>>, finish |-> 0],
      commit |-> {},        \* what finish() answered
      messages |-> <<>>,    \* what the message service was asked to show
      result |-> "none",    \* none, nothing, pending, fulfilled, rejected
      error |-> {},         \* the error run() is rejected with
      trace |-> <<>> ]      \* the calls made on the collaborators, in order

Log(r, event) == [r EXCEPT !.trace = Append(@, event)]

Show(r, severity, text) ==
    Log([r EXCEPT !.messages = Append(@, [severity |-> severity, text |-> text])], "show")

Fulfil(r) == [r EXCEPT !.pc = "done", !.result = "fulfilled"]

Reject(r, err) == [r EXCEPT !.pc = "done", !.result = "rejected", !.error = {err}]

\* ------------------------------------------------------------------ run(): the selection resolver

\* Lines 75-80: the range of the word, on the selection's start line.
WordRangeOf(selection, word) ==
    [ startLineNumber |-> startLineNumber(selection),
      startColumn |-> word.startColumn,
      endLineNumber |-> startLineNumber(selection),
      endColumn |-> word.endColumn ]

\* As SelectionStartOf, with the word's start column forgotten.
SelectionStartAbsolute(selection, word) ==
    IF ~isEmpty(selection) /\ startLineNumber(selection) = endLineNumber(selection)
    THEN Max(0, startColumn(selection) - 1)
    ELSE 0

\* Lines 71 and 82-83.
SelectionStartOf(selection, word) ==
    IF ~isEmpty(selection) /\ startLineNumber(selection) = endLineNumber(selection)
    THEN Max(0, startColumn(selection) - word.startColumn)
    ELSE 0

\* As SelectionEndOf, without the clamp to the end of the word.
SelectionEndUnclamped(selection, word) ==
    IF ~isEmpty(selection) /\ startLineNumber(selection) = endLineNumber(selection)
    THEN endColumn(selection) - word.startColumn
    ELSE Len(word.word)

\* Lines 72, 82 and 84.
SelectionEndOf(selection, word) ==
    IF ~isEmpty(selection) /\ startLineNumber(selection) = endLineNumber(selection)
    THEN Min(word.endColumn, endColumn(selection)) - word.startColumn
    ELSE Len(word.word)

\* The arguments run() hands to getInput (line 88).
InputArgs(selection, word) ==
    [ wordRange |-> WordRangeOf(selection, word),
      value |-> word.word,
      selectionStart |-> SelectionStartOf(selection, word),
      selectionEnd |-> SelectionEndOf(selection, word) ]

\* As VisibleAfterRun, with the set(true) of line 87 left out.
VisibleNeverSet(visible, word) == visible

\* As VisibleAfterRun, with the set(true) moved before the early return of line 67.
VisibleSetEarly(visible, word) == TRUE

\* The context key after the synchronous part of run(): set only past the early
\* return (lines 66-68, 87).
VisibleAfterRun(visible, word) == IF word = {} THEN visible ELSE TRUE

\* The invocation after the synchronous part of run() (lines 61-88).
Started(ed, word) ==
    LET r == [NoInvocation EXCEPT
                !.atRun = {[model |-> ed.model, selection |-> ed.selection]}]
    IN  IF word = {}
        THEN [r EXCEPT !.pc = "done", !.result = "nothing"]
        ELSE Log(Log([r EXCEPT !.pc = "input", !.result = "pending",
                               !.shown = {InputArgs(ed.selection, CHOOSE w \in word : TRUE)}],
                     "setVisible"), "getInput")

\* ------------------------------------------------------------------ run(): the continuations

\* As PrepareRename, with the bulk edit created only after rename() was called.
PrepareRenameLateEdit(r, ed, newName) ==
    Log([Log([r EXCEPT
                !.call = {[model |-> ed.model, position |-> getPosition(ed),
                           newName |-> newName]},
                !.pc = "service"], "rename")
            EXCEPT !.edit.created = @ + 1],
        "createBulkEdit")

\* As PrepareRename, with rename() never called: the promise stays pending.
PrepareRenameNoCall(r, ed, newName) ==
    Log([r EXCEPT !.edit.created = @ + 1], "createBulkEdit")

\* _prepareRename up to the call of rename() (lines 134-136): the bulk edit is
\* created, then the service is called with the editor's model and position.
PrepareRename(r, ed, newName) ==
    Log([Log([r EXCEPT !.edit.created = @ + 1], "createBulkEdit") EXCEPT
            !.call = {[model |-> ed.model, position |-> getPosition(ed), newName |-> newName]},
            !.pc = "service"],
        "rename")

\* The success continuation of getInput up to its return (lines 88-92, 109-110).
OnAccepted(r, ed, newName) ==
    Log(PrepareRename(Log(Log([r EXCEPT !.newName = {newName}], "reset"), "focus"),
                      ed, newName),
        "showWhile")

\* As OnInputError, with every error raised again, the cancellation included.
OnInputErrorRethrown(r, err) ==
    Reject(Log(Log([r EXCEPT !.inputError = {err}], "reset"), "focus"), err)

\* As OnInputError, with every error swallowed.
OnInputErrorSwallowed(r, err) ==
    Fulfil(Log(Log([r EXCEPT !.inputError = {err}], "reset"), "focus"))

\* The error continuation of getInput (lines 112-119).
OnInputError(r, err) ==
    LET r1 == Log(Log([r EXCEPT !.inputError = {err}], "reset"), "focus")
    IN  IF err.kind # "canceled" THEN Reject(r1, err) ELSE Fulfil(r1)

\* As OnRenameError, without the test of the payload's type: all is an error.
OnRenameErrorUntyped(r, err) == Reject(Show(r, "Error", RenameFailed), err)

\* As OnRenameError, with the return missing after the first show.
OnRenameErrorFallThrough(r, err) ==
    IF err.kind = "string"
    THEN Reject(Show(Show(r, "Info", err.text), "Error", RenameFailed), err)
    ELSE Reject(Show(r, "Error", RenameFailed), err)

\* As OnRenameError, with the error not handed on after the message.
OnRenameErrorSwallowed(r, err) ==
    IF err.kind = "string"
    THEN Fulfil(Show(r, "Info", err.text))
    ELSE Fulfil(Show(r, "Error", RenameFailed))

\* The error continuation of _prepareRename(newName) (lines 100-107).
OnRenameError(r, err) ==
    IF err.kind = "string"
    THEN Fulfil(Show(r, "Info", err.text))
    ELSE Reject(Show(r, "Error", RenameFailed), err)

\* result.rejectReason as a condition (line 137): a string that is not empty.
IsRejected(result) == \E reason \in result.rejectReason : reason # ""

\* As OnRenameResult, with finish() called on a bulk edit nothing was added to.
OnRenameResultNoAdd(r, result, thrown) ==
    LET r1 == [r EXCEPT !.reply = {[result |-> {result}, error |-> {}]}]
    IN  IF IsRejected(result)
        THEN OnRenameError(r1, StringError(CHOOSE reason \in result.rejectReason : TRUE))
        ELSE Log([r1 EXCEPT !.edit.finish = @ + 1, !.pc = "commit"], "finish")

\* The continuation of rename() (lines 136-142), then that of _prepareRename
\* (lines 92-94): either the rejection goes to the error continuation, or the
\* edits are added and finish() is called. thrown is what add() threw, if anything.
OnRenameResult(r, result, thrown) ==
    LET r1 == [r EXCEPT !.reply = {[result |-> {result}, error |-> {}]}]
    IN  IF IsRejected(result)
        THEN OnRenameError(r1, StringError(CHOOSE reason \in result.rejectReason : TRUE))
        ELSE IF thrown # {}
        THEN OnRenameError(Log([r1 EXCEPT !.addError = thrown], "add"),
                           CHOOSE err \in thrown : TRUE)
        ELSE Log([Log([r1 EXCEPT !.edit.added = Append(@, result.edits)], "add")
                    EXCEPT !.edit.finish = @ + 1, !.pc = "commit"], "finish")

\* rename() itself failed: its error goes to the same error continuation (line 100).
OnRenameFailed(r, err) ==
    OnRenameError([r EXCEPT !.reply = {[result |-> {}, error |-> {err}]}], err)

\* The continuation of finish() (lines 94-98).
OnFinished(r, selection) ==
    LET r1 == [r EXCEPT !.commit = {[selection |-> selection, error |-> {}]}]
    IN  Fulfil(IF selection # {} THEN Log(r1, "setSelection") ELSE r1)

\* As EditorAfterFinish, with the resulting selection not applied.
EditorSelectionIgnored(ed, selection) == ed

\* The editor after the continuation of finish() (lines 95-97).
EditorAfterFinish(ed, selection) ==
    IF selection # {} THEN [ed EXCEPT !.selection = CHOOSE s \in selection : TRUE] ELSE ed

\* As OnFinishError, with the error continuation of getInput run for the error too.
OnFinishErrorHandledTwice(r, err) ==
    OnInputError([r EXCEPT !.commit = {[selection |-> {}, error |-> {err}]}], err)

\* finish() failed: the promise of line 94 has no error continuation, and the one
\* of line 100 belongs to _prepareRename's promise, so the error reaches the
\* caller of run() as it is.
OnFinishError(r, err) ==
    Reject([r EXCEPT !.commit = {[selection |-> {}, error |-> {err}]}], err)

\* ------------------------------------------------------------------ the actions

Slots == 1..MaxRuns

\* The host has yet to take the outcome of a settled run(). It takes it in the
\* turn that settled it, so no other step comes in between.
Settling == \E i \in Slots : inv[i].pc = "done"

\* The precondition of the rename action (line 156).
Precondition(w, h) == w /\ h

\* RenameAction.run -> RenameController.run, up to the return of line 88 or 67.
RunIn(slots) ==
    /\ ~Settling
    /\ Precondition(writable, hasRenameProvider)
    /\ \E i \in slots :
        /\ inv[i].pc = "idle"
        /\ \A j \in slots : inv[j].pc = "idle" => i <= j
        /\ LET word == getWordAtPosition(editor.model, getStartPosition(editor.selection))
           IN  /\ inv' = [inv EXCEPT ![i] = Started(editor, word)]
               /\ renameInputVisible' = VisibleAfterRun(renameInputVisible, word)
               /\ session' = IF word = {} THEN session ELSE i
               /\ focus' = IF word = {} THEN focus ELSE "input"
    /\ UNCHANGED <<editor, writable, hasRenameProvider>>

Run == RunIn(Slots)

\* The input session of invocation i delivers Accepted(newName): lines 88-110.
InputAccepted(i, newName) ==
    /\ inv' = [inv EXCEPT ![i] = OnAccepted(@, editor, newName)]
    /\ renameInputVisible' = FALSE
    /\ focus' = "editor"
    /\ session' = 0
    /\ UNCHANGED <<editor, writable, hasRenameProvider>>

\* The input session of invocation i fails with err: lines 112-119.
InputRejected(i, err) ==
    /\ inv' = [inv EXCEPT ![i] = OnInputError(@, err)]
    /\ renameInputVisible' = FALSE
    /\ focus' = "editor"
    /\ session' = 0
    /\ UNCHANGED <<editor, writable, hasRenameProvider>>

\* The command acceptRenameInput (lines 177-186, 122-124).
AcceptRenameInput ==
    /\ ~Settling
    /\ renameInputVisible
    /\ session # 0
    /\ \E newName \in Names : InputAccepted(session, newName)

\* The command cancelRenameInput (lines 188-198, 126-128).
CancelRenameInput ==
    /\ ~Settling
    /\ renameInputVisible
    /\ session # 0
    /\ InputRejected(session, Canceled)

\* The input field loses the focus: as cancel.
FocusLost ==
    /\ ~Settling
    /\ session # 0
    /\ focus = "input"
    /\ InputRejected(session, Canceled)

\* The input session fails with an error that is no cancellation.
InputFailed ==
    /\ ~Settling
    /\ session # 0
    /\ \E err \in Failures : InputRejected(session, err)

\* rename() answers invocation i with a result.
RenameReplied(i) ==
    /\ ~Settling
    /\ inv[i].pc = "service"
    /\ \E result \in Results, thrown \in {{}} \cup { {e} : e \in Failures } :
        /\ IsRejected(result) => thrown = {}
        /\ inv' = [inv EXCEPT ![i] = OnRenameResult(@, result, thrown)]
    /\ UNCHANGED <<editor, writable, hasRenameProvider, renameInputVisible, session, focus>>

\* rename() fails for invocation i.
RenameFailedFor(i) ==
    /\ ~Settling
    /\ inv[i].pc = "service"
    /\ \E err \in Errors : inv' = [inv EXCEPT ![i] = OnRenameFailed(@, err)]
    /\ UNCHANGED <<editor, writable, hasRenameProvider, renameInputVisible, session, focus>>

\* finish() of invocation i succeeds, with a resulting selection or with none.
Finished(i) ==
    /\ ~Settling
    /\ inv[i].pc = "commit"
    /\ \E selection \in FinishSelections :
        /\ inv' = [inv EXCEPT ![i] = OnFinished(@, selection)]
        /\ editor' = EditorAfterFinish(editor, selection)
    /\ UNCHANGED <<writable, hasRenameProvider, renameInputVisible, session, focus>>

\* finish() of invocation i fails, as on a conflicting concurrent edit.
FinishFailed(i) ==
    /\ ~Settling
    /\ inv[i].pc = "commit"
    /\ \E err \in Failures : inv' = [inv EXCEPT ![i] = OnFinishError(@, err)]
    /\ UNCHANGED <<editor, writable, hasRenameProvider, renameInputVisible, session, focus>>

\* The host takes the outcome of the settled run() (lines 168-170); the
\* invocation is over and its slot is free again.
Returned(i) ==
    /\ inv[i].pc = "done"
    /\ inv' = [inv EXCEPT ![i] = NoInvocation]
    /\ UNCHANGED <<editor, writable, hasRenameProvider, renameInputVisible, session, focus>>

\* The cursor or the selection of the editor changes.
SetSelection ==
    /\ ~Settling
    /\ \E s \in CursorMoves :
        /\ s # editor.selection
        /\ editor' = [editor EXCEPT !.selection = s]
    /\ UNCHANGED <<writable, hasRenameProvider, renameInputVisible, session, focus, inv>>

\* The editor is given another document; its cursor starts at the top.
SetModel ==
    /\ ~Settling
    /\ \E d \in Docs :
        /\ d # editor.model
        /\ editor' = [model |-> d, selection |-> Collapsed(Pos(1, 1))]
    /\ UNCHANGED <<writable, hasRenameProvider, renameInputVisible, session, focus, inv>>

\* ------------------------------------------------------------------ the specifications

InitController ==
    /\ renameInputVisible = FALSE
    /\ session = 0
    /\ focus = "editor"
    /\ inv = [i \in Slots |-> NoInvocation]

Init ==
    /\ editor \in [model : Docs, selection : {Collapsed(Pos(1, 1))}]
    /\ writable \in BOOLEAN
    /\ hasRenameProvider \in BOOLEAN
    /\ InitController

Next ==
    \/ Run
    \/ AcceptRenameInput
    \/ CancelRenameInput
    \/ FocusLost
    \/ InputFailed
    \/ \E i \in Slots : RenameReplied(i)
    \/ \E i \in Slots : RenameFailedFor(i)
    \/ \E i \in Slots : Finished(i)
    \/ \E i \in Slots : FinishFailed(i)
    \/ \E i \in Slots : Returned(i)
    \/ SetSelection
    \/ SetModel

Spec == Init /\ [][Next]_vars

\* One run() from every document and every selection: the selection resolver
\* on all its inputs.
InitResolver ==
    /\ editor \in [model : Docs, selection : AllSelections]
    /\ writable = TRUE
    /\ hasRenameProvider = TRUE
    /\ InitController

RunFirst == RunIn({1})

NextResolver ==
    \/ RunFirst
    \/ AcceptRenameInput
    \/ CancelRenameInput
    \/ \E i \in Slots : RenameReplied(i)
    \/ \E i \in Slots : RenameFailedFor(i)
    \/ \E i \in Slots : Finished(i)
    \/ \E i \in Slots : FinishFailed(i)
    \/ \E i \in Slots : Returned(i)

SpecResolver == InitResolver /\ [][NextResolver]_vars

\* ------------------------------------------------------------------ the claims

Invocations == { inv[i] : i \in Slots }

\* The positions of an event in the trace of an invocation.
At(r, event) == { n \in 1..Len(r.trace) : r.trace[n] = event }

\* rename() answered with a result that carries a reject reason.
RejectedWith(r) ==
    { reason \in Reasons :
        \E a \in r.reply : \E result \in a.result : reason \in result.rejectReason }

\* rename() itself failed.
CallFailed(r) == \E a \in r.reply : a.error # {}

\* finish() failed.
CommitFailed(r) == \E c \in r.commit : c.error # {}

InfoMessage(text) == [severity |-> "Info", text |-> text]

ErrorMessage(text) == [severity |-> "Error", text |-> text]

\* C1: once a name was accepted, a failure of the rename() call, of add() or of
\* finish() ends run() as failed with exactly one message, the generic error.
C1_FailureShowsOneError ==
    \A r \in Invocations :
        (r.newName # {} /\ (CallFailed(r) \/ r.addError # {} \/ CommitFailed(r)))
            => /\ r.messages = << ErrorMessage(RenameFailed) >>
               /\ r.result = "rejected"

AdvisoryOnly(r, reason) ==
    /\ r.pc = "done"
    /\ r.messages = << InfoMessage(reason) >>
    /\ r.edit.added = << >>
    /\ r.edit.finish = 0
    /\ At(r, "setSelection") = {}
    /\ r.result = "fulfilled"

\* C3 as stated: for every reason string, Rejected(reason) shows the reason as
\* the one Info message, adds no edits, never calls finish(), leaves the selection
\* and ends run() without failure.
C3_AnyRejectionIsAdvisory ==
    \A r \in Invocations : \A reason \in RejectedWith(r) : AdvisoryOnly(r, reason)

\* C3 amended: the same for every reason string that is not empty.
C3_RejectionIsAdvisory ==
    \A r \in Invocations :
        \A reason \in RejectedWith(r) : reason # "" => AdvisoryOnly(r, reason)

\* C3 witness: rename() answered with a reason that is not empty.
C3_Witness ==
    \E r \in Invocations : \E reason \in RejectedWith(r) : reason # "" /\ r.pc = "done"

\* C4: an Info message is shown only for a Rejected(reason) answer, an Error
\* message only for a failure; a failed rename() call never shows an Info message
\* and never ends run() without failure.
C4_FailureIsNeverAdvisory ==
    \A r \in Invocations :
        /\ \A n \in 1..Len(r.messages) :
            /\ r.messages[n].severity = "Info" => RejectedWith(r) # {}
            /\ r.messages[n].severity = "Error" =>
                    (CallFailed(r) \/ r.addError # {} \/ CommitFailed(r))
        /\ CallFailed(r) =>
            /\ \A n \in 1..Len(r.messages) : r.messages[n].severity # "Info"
            /\ r.pc = "done" => r.result = "rejected"

\* C5: one invocation of run() shows at most one message.
C5_AtMostOneMessage ==
    \A r \in Invocations : Len(r.messages) <= 1

\* C5 witness: an invocation ended past the service with its one message shown.
C5_Witness ==
    \E r \in Invocations :
        r.pc = "done" /\ r.reply # {} /\ Len(r.messages) = 1

\* C6: a run() with no word at the start of the selection changes nothing: not
\* the context key, the input field, the focus or the editor, and the invocation
\* ends at once with no call made, no message and no error.
C6_NoWordRunHasNoEffect ==
    [][ \A i \in Slots :
          ( /\ inv[i].pc = "idle"
            /\ inv'[i].pc # "idle"
            /\ getWordAtPosition(editor.model, getStartPosition(editor.selection)) = {} )
          => /\ renameInputVisible' = renameInputVisible
             /\ session' = session
             /\ focus' = focus
             /\ editor' = editor
             /\ inv'[i] = [NoInvocation EXCEPT
                              !.pc = "done", !.result = "nothing", !.atRun = inv'[i].atRun] ]_vars

\* C6 witness: a run() that found no word has returned.
C6_Witness ==
    \E r \in Invocations :
        /\ r.result = "nothing"
        /\ \E t \in r.atRun : getWordAtPosition(t.model, getStartPosition(t.selection)) = {}

\* C7: the sub-range handed to the input session lies within the word:
\* 0 <= selectionStart <= selectionEnd <= len(word).
C7_SubRangeWithinWord ==
    \A r \in Invocations : \A a \in r.shown :
        /\ 0 <= a.selectionStart
        /\ a.selectionStart <= a.selectionEnd
        /\ a.selectionEnd <= Len(a.value)

\* C7 witness: the session is shown for a one-line selection that starts inside
\* the word and ends past its end.
C7_Witness ==
    \E r \in Invocations : \E a \in r.shown : \E t \in r.atRun :
        /\ r.pc = "input"
        /\ startLineNumber(t.selection) = endLineNumber(t.selection)
        /\ startColumn(t.selection) > a.wordRange.startColumn
        /\ endColumn(t.selection) > a.wordRange.endColumn

\* The sub-range the claim C8 defines for the word w and the selection s.
ReferenceSubRange(s, w) ==
    IF s.anchor # s.active /\ s.anchor.lineNumber = s.active.lineNumber
    THEN LET from == IF s.anchor.column <= s.active.column
                     THEN s.anchor.column ELSE s.active.column
             to == IF s.anchor.column <= s.active.column
                   THEN s.active.column ELSE s.anchor.column
         IN  << IF from - w.startColumn < 0 THEN 0 ELSE from - w.startColumn,
                (IF to < w.endColumn THEN to ELSE w.endColumn) - w.startColumn >>
    ELSE << 0, w.endColumn - w.startColumn >>

\* C8: the word range is the word's columns on the selection's start line, the
\* sub-range is the selection's columns clamped to the word and made relative to
\* it when the selection is not empty and on one line, and the whole word
\* otherwise; 'foo' at 5-8 with the cursor at column 5 gives [0,3), 'fooBar' at
\* 1-7 with the columns 4-6 selected gives [3,5).
C8_ResolverMatchesReference ==
    \A r \in Invocations : \A a \in r.shown : \A t \in r.atRun :
        \A w \in Words(t.model) :
            ( /\ w.lineNumber = getStartPosition(t.selection).lineNumber
              /\ w.startColumn <= getStartPosition(t.selection).column
              /\ getStartPosition(t.selection).column <= w.endColumn )
            => /\ a.value = w.word
               /\ a.wordRange.startLineNumber = getStartPosition(t.selection).lineNumber
               /\ a.wordRange.endLineNumber = a.wordRange.startLineNumber
               /\ a.wordRange.startColumn = w.startColumn
               /\ a.wordRange.endColumn = w.endColumn
               /\ << a.selectionStart, a.selectionEnd >> = ReferenceSubRange(t.selection, w)
               /\ (t.model = "d1" /\ t.selection = Collapsed(Pos(2, 5)))
                    => a.value = "foo" /\ a.selectionStart = 0 /\ a.selectionEnd = 3
               /\ (t.model = "d1" /\ t.selection \in { Sel(Pos(1, 4), Pos(1, 6)),
                                                       Sel(Pos(1, 6), Pos(1, 4)) })
                    => a.value = "fooBar" /\ a.selectionStart = 3 /\ a.selectionEnd = 5

\* C8 witness: the session is shown for 'fooBar' with the columns 4-6 selected.
C8_Witness ==
    \E r \in Invocations : \E a \in r.shown : \E t \in r.atRun :
        /\ t.model = "d1"
        /\ t.selection = Sel(Pos(1, 4), Pos(1, 6))
        /\ a.value = "fooBar"
        /\ a.selectionStart = 3

\* C9: in an accepted invocation the bulk edit is created before rename() is
\* called, so it is recording for as long as the service or the commit is awaited.
C9_EditOpenBeforeService ==
    \A r \in Invocations :
        r.call # {} =>
            /\ r.edit.created = 1
            /\ \E m \in At(r, "createBulkEdit") : \A n \in At(r, "rename") : m < n
            /\ Cardinality(At(r, "rename")) = 1

\* C9 witness: rename() was called and has not answered yet.
C9_Witness ==
    \E r \in Invocations : r.pc = "service" /\ r.call # {} /\ r.edit.created = 1

\* C10: rename() is called with the model and the cursor position the editor had
\* when run() was triggered, and with the accepted name.
C10_ServiceGetsOriginalPosition ==
    \A r \in Invocations : \A c \in r.call : \A t \in r.atRun :
        /\ c.model = t.model
        /\ c.position = t.selection.active
        /\ \A name \in r.newName : c.newName = name

\* The invocations that are pending: their input session is shown, or their
\* accepted rename awaits the service or the commit.
Pending == { i \in Slots : inv[i].pc \in {"input", "service", "commit"} }

\* C11: at most one invocation of run() is pending at any time; the precondition
\* of the rename action keeps a second run() from being triggered meanwhile.
C11_AtMostOnePending == Cardinality(Pending) <= 1

\* C12: when the input session ends by cancel or by loss of focus, the context
\* key is reset and the editor focused, no message is shown, no bulk edit is
\* created, rename() is not called, and run() ends without failure.
C12_CancellationIsSilent ==
    \A r \in Invocations :
        Canceled \in r.inputError =>
            /\ r.pc = "done"
            /\ r.result = "fulfilled"
            /\ r.error = {}
            /\ r.messages = << >>
            /\ r.edit = NoInvocation.edit
            /\ r.call = {}
            /\ r.trace = << "setVisible", "getInput", "reset", "focus" >>
            /\ ~renameInputVisible
            /\ focus = "editor"

\* C12 witness: a shown session was cancelled.
C12_Witness ==
    \E r \in Invocations : Canceled \in r.inputError /\ r.shown # {} /\ r.pc = "done"

\* The commit of the edits of an invocation succeeded with the selection.
Committed(r, selection) ==
    /\ \E a \in r.reply : \E result \in a.result : result.edits # {}
    /\ \E c \in r.commit : c.error = {} /\ c.selection = selection

\* C13: when rename() answers with edits and finish() succeeds, the editor gets
\* the resulting selection if there is one and keeps its selection if there is
\* none; no message is shown and run() ends without failure.
C13_CommitSetsSelection ==
    [][ \A i \in Slots : \A selection \in FinishSelections :
          (inv[i].pc = "commit" /\ Committed(inv'[i], selection))
          => /\ selection # {} => editor'.selection \in selection
             /\ selection = {} => editor'.selection = editor.selection
             /\ editor'.model = editor.model
             /\ inv'[i].messages = << >>
             /\ inv'[i].pc = "done"
             /\ inv'[i].result = "fulfilled" ]_vars

\* C13 witness: finish() yielded a selection, which the editor now has, and the
\* cursor was elsewhere when the rename began.
C13_Witness ==
    \E r \in Invocations : \E selection \in FinishSelections : \E c \in r.call :
        /\ selection # {}
        /\ Committed(r, selection)
        /\ editor.selection \in selection
        /\ Collapsed(c.position) # editor.selection

\* The service and the commit answer every call in the end, and the host takes
\* every outcome.
Responsive ==
    \A i \in Slots :
        /\ SF_vars(RenameReplied(i) \/ RenameFailedFor(i))
        /\ SF_vars(Finished(i) \/ FinishFailed(i))
        /\ WF_vars(Returned(i))

\* The controller with the cursor at rest: rename invoked again and again on
\* one document, each session accepted, cancelled or failed.
InitResponsive ==
    /\ editor \in [model : Docs, selection : {Collapsed(Pos(1, 1))}]
    /\ writable = TRUE
    /\ hasRenameProvider = TRUE
    /\ InitController

NextResponsive ==
    \/ Run
    \/ AcceptRenameInput
    \/ CancelRenameInput
    \/ FocusLost
    \/ InputFailed
    \/ \E i \in Slots : RenameReplied(i)
    \/ \E i \in Slots : RenameFailedFor(i)
    \/ \E i \in Slots : Finished(i)
    \/ \E i \in Slots : FinishFailed(i)
    \/ \E i \in Slots : Returned(i)

SpecResponsive == InitResponsive /\ [][NextResponsive]_vars /\ Responsive

\* The terminal outcomes of an accepted invocation.
EndedCommitted(r) == r.result = "fulfilled" /\ \E c \in r.commit : c.error = {}

EndedAdvisory(r) == r.result = "fulfilled" /\ r.commit = {} /\ Len(r.messages) = 1

EndedFailed(r) == r.result = "rejected"

\* C14: once a name was accepted, no later accept or cancel of an input session
\* changes the invocation, and if the service and the commit answer, it ends with
\* exactly one of: committed, advisory rejection, failure.
C14_AcceptedRunsToEnd ==
    /\ [][ \A i \in Slots :
             ( /\ inv[i].newName # {}
               /\ inv[i].pc # "done"
               /\ session # 0
               /\ session' = 0 )
             => inv'[i] = inv[i] ]_vars
    /\ [] \A i \in Slots :
            (inv[i].newName # {} /\ inv[i].pc = "done")
                => \/ EndedCommitted(inv[i]) /\ ~EndedAdvisory(inv[i]) /\ ~EndedFailed(inv[i])
                   \/ ~EndedCommitted(inv[i]) /\ EndedAdvisory(inv[i]) /\ ~EndedFailed(inv[i])
                   \/ ~EndedCommitted(inv[i]) /\ ~EndedAdvisory(inv[i]) /\ EndedFailed(inv[i])
    /\ \A i \in Slots : (inv[i].newName # {}) ~> (inv[i].pc = "done")

\* C14 witness: two accepted renames are in flight together, so the session of
\* one was accepted while the other was already running.
C14_Witness ==
    \E i, j \in Slots :
        /\ i # j
        /\ inv[i].pc \in {"service", "commit"}
        /\ inv[j].pc \in {"service", "commit"}
        /\ inv[i].newName # {}
        /\ inv[j].newName # {}

\* C15: when the input session fails with an error that is no cancellation,
\* run() resets the context key and focuses the editor, creates no bulk edit,
\* does not call rename(), and fails with that same error.
C15_InputFailureIsRethrown ==
    \A r \in Invocations : \A e \in r.inputError :
        e.kind # "canceled" =>
            /\ r.pc = "done"
            /\ r.trace = << "setVisible", "getInput", "reset", "focus" >>
            /\ ~renameInputVisible
            /\ focus = "editor"
            /\ r.edit = NoInvocation.edit
            /\ r.call = {}
            /\ r.messages = << >>
            /\ r.result = "rejected"
            /\ r.error = {e}

\* C15 witness: a shown session has failed with an error that is no cancellation.
C15_Witness ==
    \E r \in Invocations : \E e \in r.inputError :
        e \in Failures /\ r.shown # {} /\ r.pc = "done" /\ r.error = {e}

\* C16: when rename() itself fails with an error that is no string, the generic
\* message is shown once at Error severity, nothing is added to the bulk edit,
\* finish() is not called, the selection stays, and run() fails with that error.
C16_ServiceFailureShowsError ==
    [][ \A i \in Slots : \A a \in inv'[i].reply : \A e \in a.error :
          (inv[i].pc = "service" /\ e.kind # "string")
          => /\ inv'[i].messages = << ErrorMessage(RenameFailed) >>
             /\ inv'[i].edit.added = << >>
             /\ inv'[i].edit.finish = 0
             /\ inv'[i].commit = {}
             /\ At(inv'[i], "setSelection") = {}
             /\ editor' = editor
             /\ inv'[i].pc = "done"
             /\ inv'[i].result = "rejected"
             /\ inv'[i].error = {e} ]_vars

\* C16 witness: an accepted invocation whose rename() call failed with an error
\* that is no string.
C16_Witness ==
    \E r \in Invocations : \E a \in r.reply : \E e \in a.error :
        e.kind # "string" /\ r.newName # {} /\ r.pc = "done"

\* On acceptance the context key is reset and the editor focused before the bulk
\* edit is created and before rename() is called.
ResetBeforeRename(r) ==
    \A n \in At(r, "createBulkEdit") \cup At(r, "rename") :
        /\ \E m \in At(r, "reset") : m < n
        /\ \E m \in At(r, "focus") : m < n

\* C17: on acceptance the context key is reset and the editor focused before the
\* bulk edit is created and rename() called, so the key is false for as long as
\* an accepted rename awaits the service or the commit.
C17_KeyFalseWhileInFlight ==
    /\ \A r \in Invocations : ResetBeforeRename(r)
    /\ (\E i \in Slots : inv[i].pc \in {"service", "commit"}) => ~renameInputVisible

\* The order alone, which every invocation keeps.
AcceptOrderKept == \A r \in Invocations : ResetBeforeRename(r)

\* The position lies in the range, ends included.
InsideRange(position, range) ==
    /\ position.lineNumber = range.startLineNumber
    /\ range.startColumn <= position.column
    /\ position.column <= range.endColumn

\* C18: the position rename() is called with lies inside the word range that
\* was shown in the input field, whatever selection triggered run().
C18_ServicePositionInsideWord ==
    \A r \in Invocations : \A c \in r.call : \A shown \in r.shown :
        InsideRange(c.position, shown.wordRange)

\* C19: an invocation that showed the input session resets the context key and
\* focuses the editor exactly once each, when the session is resolved; a later
\* failure of rename() or finish() does not run the error continuation of the
\* session, so neither happens a second time.
C19_ResetAndFocusOnce ==
    \A r \in Invocations :
        r.shown # {} =>
            /\ r.pc = "input" => At(r, "reset") = {} /\ At(r, "focus") = {}
            /\ r.pc # "input" => At(r, "reset") = {3} /\ At(r, "focus") = {4}
            /\ r.newName # {} => r.inputError = {}

\* C19 witness: finish() has failed for an accepted invocation.
C19_Witness ==
    \E r \in Invocations : r.shown # {} /\ r.newName # {} /\ CommitFailed(r) /\ r.pc = "done"

\* rename() answered with edits and no reject reason.
AnsweredEdits(r) ==
    \E a \in r.reply : \E result \in a.result : result.edits # {} /\ result.rejectReason = {}

\* rename() answered with a result line 137 does not take for a rejection.
AnsweredUnrejected(r) ==
    \E a \in r.reply : \E result \in a.result : ~IsRejected(result)

\* The bulk edit is created once by an accepted invocation and by no other;
\* add() is called at most once, finish() at most once and only after add().
BulkEditProtocol(r) ==
    /\ r.edit.created = (IF r.newName # {} THEN 1 ELSE 0)
    /\ Cardinality(At(r, "createBulkEdit")) = r.edit.created
    /\ Cardinality(At(r, "add")) <= 1
    /\ Len(r.edit.added) <= Cardinality(At(r, "add"))
    /\ Cardinality(At(r, "finish")) <= 1
    /\ r.edit.finish = Cardinality(At(r, "finish"))
    /\ \A n \in At(r, "finish") : Len(r.edit.added) = 1 /\ \E m \in At(r, "add") : m < n
    /\ \A n \in At(r, "add") : \E m \in At(r, "createBulkEdit") : m < n

\* C20 as stated: the bulk edit protocol, with add() called only after rename()
\* answered with edits.
C20_AddOnlyAfterEdits ==
    \A r \in Invocations :
        /\ BulkEditProtocol(r)
        /\ At(r, "add") # {} => AnsweredEdits(r)

\* C20: the bulk edit is created exactly once per accepted invocation and never
\* when there is no word or the session is cancelled; add() is called at most
\* once, and only after rename() answered with a result that carries no reject
\* reason or an empty one; finish() is called at most once, and only after add().
C20_BulkEditProtocol ==
    \A r \in Invocations :
        /\ BulkEditProtocol(r)
        /\ At(r, "add") # {} => AnsweredUnrejected(r)
        /\ (\E reason \in RejectedWith(r) : reason # "") => At(r, "add") = {}

\* C20 witness: an accepted invocation has created its bulk edit, added the
\* answered edits and called finish().
C20_Witness ==
    \E r \in Invocations :
        /\ r.pc = "commit"
        /\ AnsweredEdits(r)
        /\ r.trace = << "setVisible", "getInput", "reset", "focus", "createBulkEdit",
                        "rename", "showWhile", "add", "finish" >>

====
